---- MODULE Spec2Model ----
(***************************************************************************)
(* django-suit: the sortable admin (suit/admin.py) and the EnclosedInput   *)
(* widget (suit/widgets.py) as state machines.                             *)
(*                                                                         *)
(*   Spec          one admin site over one sortable model: add view,       *)
(*                 change view, change list and its list_editable POST     *)
(*   SpecSessions  concurrent sessions running save_model for new objects  *)
(*   SpecFieldsets SortableStackedInlineBase.get_fieldsets on configured   *)
(*                 fieldsets (mutated in place)                            *)
(*   SpecWidget    EnclosedInput rendered repeatedly                       *)
(***************************************************************************)
EXTENDS Integers, Sequences, FiniteSets

\* ------------------------------------------------------------------ bounds
MaxRecords == 3      \* rows of the sortable model's table
MaxFields == 3       \* fields in one fieldset's "fields"
MaxFieldsets == 2    \* fieldsets of one inline
MaxCalls == 2        \* get_fieldsets calls on the same fieldsets
MaxRenders == 2      \* render calls on one widget instance
NumSessions == 2     \* concurrent admin sessions

VARIABLES
    order,          \* the table: order[pk] is the sortable column of row pk
    nulls_high,     \* the database sorts NULL above every number
    status,         \* change list POST: "none", "saving", "applied", "failed", "invalid"
    batch,          \* the posted formset: pk -> new value of the sortable column
    todo,           \* forms of the formset still to be saved, in result-list order
    before,         \* the table when the POST arrived
    cl_request,     \* <<o>>: the last change list request asked for ordering o
    cl_ordering,    \* what ChangeList.get_ordering returned for it
    pc,             \* per session: "idle" or "aggregated" (inside save_model)
    max_order,      \* per session: the aggregate read at admin.py:272
    declared,       \* the inline's fieldsets as configured
    fieldsets,      \* the same objects now: sequence of [kind, fields]
    raised,         \* get_fieldsets raised AssertionError on its last call
    calls,          \* number of get_fieldsets calls so far
    first_result,   \* the fieldsets as the first call left them
    prepend,        \* EnclosedInput.prepend
    append,         \* EnclosedInput.append
    configured,     \* the prepend/append/classes given to __init__
    renders,        \* number of render calls so far
    first_output,   \* per value: output of the first render call with it
    last_value,     \* value argument of the last render call
    output          \* output of the last render call

vars == <<order, nulls_high, status, batch, todo, before, cl_request, cl_ordering,
          pc, max_order, declared, fieldsets, raised, calls, first_result,
          prepend, append, configured, renders, first_output, last_value, output>>

adminVars == <<order, nulls_high, status, batch, todo, before, cl_request, cl_ordering>>
sessionVars == <<pc, max_order>>
fieldsetVars == <<declared, fieldsets, raised, calls, first_result>>
widgetVars == <<prepend, append, configured, renders, first_output, last_value, output>>

\* ------------------------------------------------------------- the table
\* A nullable integer column: None is NULL / Python None, <<n>> the integer n.
None == <<>>

OrderValues == {<<n>> : n \in 1..MaxRecords}

\* SortableModelAdminBase.sortable
sortable == "order"

\* model._meta.pk.name
pk_name == "id"

Asc(f) == [field |-> f, desc |-> FALSE]
Desc(f) == [field |-> f, desc |-> TRUE]

\* SortableChangeList.get_ordering without the primary key
get_ordering_no_pk(request, queryset) == <<Asc(sortable)>>

\* ChangeList.get_ordering of the framework: the request's ordering, else the admin's
get_ordering_base(request, queryset) == IF request # <<>> THEN request ELSE queryset

\* SortableChangeList.get_ordering: [self.model_admin.sortable, "-" + pk.name]
get_ordering(request, queryset) == <<Asc(sortable), Desc(pk_name)>>

\* self.ordering = (self.sortable,)
admin_ordering == <<Asc(sortable)>>

\* orderings a change list request can ask for (the "o" parameter)
RequestOrderings == {<<>>, <<Asc(pk_name)>>, <<Desc(sortable)>>}

\* the value of column `field` in row id
Column(tbl, id, field) == IF field = pk_name THEN <<id>> ELSE tbl[id]

\* x sorts strictly before y in ascending order
Less(x, y) ==
    IF x = None THEN (y # None /\ ~nulls_high)
    ELSE IF y = None THEN nulls_high
    ELSE x[1] < y[1]

KeyBefore(tbl, a, b, key) ==
    IF key.desc THEN Less(Column(tbl, b, key.field), Column(tbl, a, key.field))
    ELSE Less(Column(tbl, a, key.field), Column(tbl, b, key.field))

\* ORDER BY ordering: row a must come before row b
RECURSIVE Before(_, _, _, _)
Before(tbl, a, b, ordering) ==
    IF ordering = <<>> THEN FALSE
    ELSE IF KeyBefore(tbl, a, b, Head(ordering)) THEN TRUE
    ELSE IF KeyBefore(tbl, b, a, Head(ordering)) THEN FALSE
    ELSE Before(tbl, a, b, Tail(ordering))

\* every sequence the database may return for queryset.order_by(*ordering) over
\* the rows `rows`: a row that no remaining row must precede, then the rest
RECURSIVE Sorted(_, _, _)
Sorted(tbl, rows, ordering) ==
    IF rows = {} THEN {<<>>}
    ELSE UNION {{<<first>> \o rest : rest \in Sorted(tbl, rows \ {first}, ordering)} :
                first \in {r \in rows : \A x \in rows : ~Before(tbl, x, r, ordering)}}

Listings(tbl, ordering) == Sorted(tbl, DOMAIN tbl, ordering)

\* objects.aggregate(Max(sortable)): the largest non-NULL value, None when there is none
RECURSIVE Max(_)
Max(values) ==
    IF values = {} THEN None
    ELSE LET v == CHOOSE x \in values : TRUE
             m == Max(values \ {v})
         IN  IF v = None THEN m
             ELSE IF m = None \/ v[1] > m[1] THEN v ELSE m

aggregate(tbl) == Max({tbl[id] : id \in DOMAIN tbl})

\* next_order that forgets the + 1
next_order_no_increment(max_order_value) ==
    IF max_order_value = None THEN <<1>> ELSE max_order_value

\* max_order[...] + 1, and 1 when that raises TypeError (the maximum is None)
next_order(max_order_value) ==
    IF max_order_value = None THEN <<1>> ELSE <<max_order_value[1] + 1>>

\* ModelAdmin.save_model -> obj.save(): INSERT with the next auto pk, or UPDATE
save(tbl, obj) ==
    IF obj.pk = None THEN Append(tbl, obj.order)
    ELSE [tbl EXCEPT ![obj.pk[1]] = obj.order]

\* save_model that assigns the next order to every object it saves
save_model_always(tbl, obj) ==
    save(tbl, [obj EXCEPT !.order = next_order(aggregate(tbl))])

\* SortableModelAdmin.save_model as one step: only for an object with no pk is the
\* maximum read and the order set; then the object is saved
save_model(tbl, obj) ==
    IF obj.pk = None
    THEN save(tbl, [obj EXCEPT !.order = next_order(aggregate(tbl))])
    ELSE save(tbl, obj)

\* values the sortable column of an unsaved object may carry (it is excluded from
\* the add form, so this is the model field's default)
CarriedOrders == {None, <<1>>}

\* ------------------------------------------------------- Spec: one admin
\* One admin site serving one request at a time. A drag-and-drop reorder reaches
\* the program as a change list POST: __init__ puts the sortable field into
\* list_editable, so the change list carries one form per row with the row's
\* order, and every changed form is saved by its own save_model call. Nothing in
\* suit/admin.py joins these calls into a transaction or undoes them, so the POST
\* is the one request that writes more than once.

\* the parts a specification leaves alone
NoChangelist ==
    /\ status = "none" /\ batch = <<>> /\ todo = <<>> /\ before = <<>>
    /\ cl_request = <<>> /\ cl_ordering = <<>>

NoTable == order = <<>> /\ nulls_high = TRUE /\ NoChangelist

NoSessions == pc = <<>> /\ max_order = <<>>

NoInline ==
    /\ declared = <<>> /\ fieldsets = <<>> /\ raised = FALSE
    /\ calls = 0 /\ first_result = <<>>

NoWidget ==
    /\ prepend = None /\ append = None /\ configured = <<>> /\ renders = 0
    /\ first_output = <<>> /\ last_value = "" /\ output = <<>>

Init ==
    /\ order = <<>>
    /\ nulls_high = TRUE
    /\ NoChangelist
    /\ NoSessions
    /\ NoInline
    /\ NoWidget

\* add view: save_model(request, obj, form, change=False) on an object with no pk
AddView ==
    /\ status = "none"
    /\ Len(order) < MaxRecords
    /\ \E carried \in CarriedOrders :
        order' = save_model(order, [pk |-> None, order |-> carried])
    /\ UNCHANGED <<nulls_high, status, batch, todo, before, cl_request, cl_ordering>>
    /\ UNCHANGED <<sessionVars, fieldsetVars, widgetVars>>

\* change view: the object is loaded, the form (which excludes the sortable field)
\* is applied, save_model(request, obj, form, change=True)
ChangeView ==
    /\ status = "none"
    /\ \E id \in DOMAIN order :
        order' = save_model(order, [pk |-> <<id>>, order |-> order[id]])
    /\ UNCHANGED <<nulls_high, status, batch, todo, before, cl_request, cl_ordering>>
    /\ UNCHANGED <<sessionVars, fieldsetVars, widgetVars>>

\* the forms of a posted formset whose sortable value differs from the row's
\* (form.has_changed()), in the order of the result list
RECURSIVE ChangedForms(_, _, _)
ChangedForms(listing, tbl, posted) ==
    IF listing = <<>> THEN <<>>
    ELSE LET id == Head(listing)
             rest == ChangedForms(Tail(listing), tbl, posted)
         IN  IF id \in DOMAIN posted /\ posted[id] # tbl[id] THEN <<id>> \o rest ELSE rest

\* a formset posted from the change list: one form per row shown (list_per_page is
\* 500, so every row), or with a form more, for a pk that is not a row
Batches(tbl) == [DOMAIN tbl -> OrderValues] \cup [1..(Len(tbl) + 1) -> OrderValues]

\* change list POST with list_editable = [..., sortable]: the formset is validated
\* (every posted pk must be a row), then each changed form is saved in turn
ChangelistPost ==
    /\ status = "none"
    /\ order # <<>>
    /\ \E request \in RequestOrderings :
       \E listing \in Listings(order, get_ordering(request, admin_ordering)) :
       \E posted \in Batches(order) :
        /\ batch' = posted
        /\ before' = order
        /\ IF ~(DOMAIN posted \subseteq DOMAIN order)
           THEN /\ status' = "invalid"
                /\ todo' = <<>>
           ELSE /\ todo' = ChangedForms(listing, order, posted)
                /\ status' = IF todo' = <<>> THEN "applied" ELSE "saving"
    /\ UNCHANGED <<order, nulls_high, cl_request, cl_ordering>>
    /\ UNCHANGED <<sessionVars, fieldsetVars, widgetVars>>

\* one form of the formset: save_model(request, obj, form, change=True)
ChangelistSaveRow ==
    /\ status = "saving"
    /\ LET id == Head(todo) IN
        order' = save_model(order, [pk |-> <<id>>, order |-> batch[id]])
    /\ todo' = Tail(todo)
    /\ status' = IF todo' = <<>> THEN "applied" ELSE "saving"
    /\ UNCHANGED <<nulls_high, batch, before, cl_request, cl_ordering>>
    /\ UNCHANGED <<sessionVars, fieldsetVars, widgetVars>>

\* obj.save() of one form raises (a storage error): the request ends with the
\* error, and the rows saved before it stay saved
ChangelistRowFails ==
    /\ status = "saving"
    /\ status' = "failed"
    /\ UNCHANGED <<order, nulls_high, batch, todo, before, cl_request, cl_ordering>>
    /\ UNCHANGED <<sessionVars, fieldsetVars, widgetVars>>

\* the response to the POST has been sent
ChangelistDone ==
    /\ status \in {"applied", "failed", "invalid"}
    /\ status' = "none"
    /\ batch' = <<>>
    /\ todo' = <<>>
    /\ before' = <<>>
    /\ UNCHANGED <<order, nulls_high, cl_request, cl_ordering>>
    /\ UNCHANGED <<sessionVars, fieldsetVars, widgetVars>>

Next ==
    \/ AddView
    \/ ChangeView
    \/ ChangelistPost
    \/ ChangelistSaveRow
    \/ ChangelistRowFails
    \/ ChangelistDone

Spec == Init /\ [][Next]_vars

\* position of row id in a result list
PositionOf(listing, id) == CHOOSE i \in 1..Len(listing) : listing[i] = id

\* C3: once a change list POST has been applied, every result list read through
\* the change list's ordering holds the posted rows in the order of their posted
\* values, rows with equal values by descending pk.
C3_ReorderReadBack ==
    status = "applied" =>
        \A request \in RequestOrderings :
            LET listings == Listings(order, get_ordering(request, admin_ordering)) IN
            /\ listings # {}
            /\ \A listing \in listings : \A a, b \in DOMAIN batch :
                a # b =>
                    ((PositionOf(listing, a) < PositionOf(listing, b))
                        <=> (\/ batch[a][1] < batch[b][1]
                             \/ (batch[a][1] = batch[b][1] /\ a > b)))

\* rows A(1), B(2), C(3), batch [(C,1),(A,2),(B,3)], read back as [C, A, B]
C3_Witness ==
    /\ status = "applied"
    /\ before = << <<1>>, <<2>>, <<3>> >>
    /\ batch = << <<2>>, <<3>>, <<1>> >>
    /\ Listings(order, get_ordering(<<>>, admin_ordering)) = {<<3, 1, 2>>}

\* C4: a change list POST that fails (an unknown pk in the formset, or a save that
\* raises partway) leaves every row's order as it was when the POST arrived.
C4_AllOrNothing ==
    status \in {"failed", "invalid"} =>
        \A id \in DOMAIN before : order[id] = before[id]

\* C7: an existing row's order changes only when a form of a change list POST is
\* saved, and then to the value that form carries; no other save_model call on an
\* object with a pk changes it.
C7_OrderAssignedOnce ==
    [][\A id \in DOMAIN order :
        order'[id] # order[id] =>
            /\ status = "saving"
            /\ id = Head(todo)
            /\ order'[id] = batch[id]]_vars

\* a form of a change list POST was saved with the value it carried
C7_Witness ==
    /\ status = "applied"
    /\ \E id \in DOMAIN before :
        /\ order[id] = batch[id]
        /\ order[id] # before[id]
        /\ order[id] # next_order(aggregate(before))

\* ------------------------------------------- SpecSessions: concurrent adds
\* Sessions run save_model for new objects concurrently: the aggregate read
\* (admin.py:272) and the INSERT (admin.py:278) are two database operations, and
\* other sessions' operations may come between them.
Sessions == 1..NumSessions

\* a table the admin may start on: empty, or one row stored with a NULL order
InitialTables == {<<>>, <<None>>}

InitSessions ==
    /\ order \in InitialTables
    /\ nulls_high \in BOOLEAN
    /\ NoChangelist
    /\ pc = [s \in Sessions |-> "idle"]
    /\ max_order = [s \in Sessions |-> None]
    /\ NoInline
    /\ NoWidget

InsertsPending == Cardinality({s \in Sessions : pc[s] = "aggregated"})

\* save_model on an object with no pk (not obj.pk), up to the aggregate query
SaveModelAggregate(s) ==
    /\ pc[s] = "idle"
    /\ Len(order) + InsertsPending < MaxRecords
    /\ max_order' = [max_order EXCEPT ![s] = aggregate(order)]
    /\ pc' = [pc EXCEPT ![s] = "aggregated"]
    /\ UNCHANGED <<adminVars, fieldsetVars, widgetVars>>

\* save_model on an object with no pk, from the aggregate's result to the INSERT:
\* next_order is computed, set on the object, and the object saved
SaveModelInsert(s) ==
    /\ pc[s] = "aggregated"
    /\ \E carried \in CarriedOrders :
        LET obj == [pk |-> None, order |-> carried] IN
        order' = save(order, [obj EXCEPT !.order = next_order(max_order[s])])
    /\ pc' = [pc EXCEPT ![s] = "idle"]
    /\ max_order' = [max_order EXCEPT ![s] = None]
    /\ UNCHANGED <<nulls_high, status, batch, todo, before, cl_request, cl_ordering>>
    /\ UNCHANGED <<fieldsetVars, widgetVars>>

\* change list GET: get_changelist returns SortableChangeList, whose get_ordering
\* decides the ordering of the result list
ChangelistView ==
    /\ \E request \in RequestOrderings :
        /\ cl_request' = <<request>>
        /\ cl_ordering' = get_ordering(request, admin_ordering)
    /\ UNCHANGED <<order, nulls_high, status, batch, todo, before>>
    /\ UNCHANGED <<sessionVars, fieldsetVars, widgetVars>>

NextSessions ==
    \/ \E s \in Sessions : SaveModelAggregate(s)
    \/ \E s \in Sessions : SaveModelInsert(s)
    \/ ChangelistView

SpecSessions == InitSessions /\ [][NextSessions]_vars

\* m is the largest non-NULL order of the table, None when there is none
IsMaximum(tbl, m) ==
    IF \A id \in DOMAIN tbl : tbl[id] = None THEN m = None
    ELSE /\ m # None
         /\ \E id \in DOMAIN tbl : tbl[id] = m
         /\ \A id \in DOMAIN tbl : tbl[id] # None => tbl[id][1] <= m[1]

\* C1: save_model on an object with no pk reads the maximum order M of the rows
\* and stores the object as a new row with order M + 1, or 1 when M is null (no
\* rows, or none with an order); the other rows are left as they are.
C1_OrderOnCreation ==
    [][\A s \in Sessions :
        /\ (pc[s] = "idle" /\ pc'[s] = "aggregated") => IsMaximum(order, max_order'[s])
        /\ (pc[s] = "aggregated" /\ pc'[s] = "idle") =>
            /\ Len(order') = Len(order) + 1
            /\ \A id \in DOMAIN order : order'[id] = order[id]
            /\ order'[Len(order')] =
                IF max_order[s] = None THEN <<1>> ELSE <<max_order[s][1] + 1>>]_vars

\* from the empty table, the first object created got 1 and the next one 2
C1_Witness == order = << <<1>>, <<2>> >>

\* C2: whatever ordering a change list request asks for, the change list's
\* ordering is exactly [order ascending, pk descending].
C2_SoleOrdering ==
    cl_request # <<>> =>
        cl_ordering = <<[field |-> "order", desc |-> FALSE], [field |-> "id", desc |-> TRUE]>>

\* a request that asked for its own ordering was served
C2_Witness ==
    /\ cl_request = << <<Desc(sortable)>> >>
    /\ cl_ordering = <<Asc("order"), Desc("id")>>

\* C6: in every state the change list's ordering is a strict total order of the
\* rows (of two distinct rows one is before the other), so exactly one result list
\* is possible for a stored state.
C6_DeterministicTotalOrder ==
    \A request \in RequestOrderings :
        LET ordering == get_ordering(request, admin_ordering) IN
        /\ \A a, b \in DOMAIN order :
            a # b => (Before(order, a, b, ordering) /\ ~Before(order, b, a, ordering))
                     \/ (Before(order, b, a, ordering) /\ ~Before(order, a, b, ordering))
        /\ Cardinality(Listings(order, ordering)) = 1

\* two sessions read the same maximum and stored equal orders
C6_Witness ==
    /\ Len(order) >= 2
    /\ order[Len(order)] = order[Len(order) - 1]
    /\ order[Len(order)] # None
    /\ \A s \in Sessions : pc[s] = "idle"

\* ------------------------------------ SpecFieldsets: the stacked inline
\* A fieldset is (name, options); options["fields"] is a list or a tuple. The
\* lists are the configured objects themselves, so what get_fieldsets does to
\* them is still there at the next call.
FieldNames == {"order", "name", "description"}

Range(seq) == {seq[i] : i \in DOMAIN seq}

Count(seq, x) == Cardinality({i \in DOMAIN seq : seq[i] = x})

\* field sequences a caller may configure: any number of occurrences of the
\* sortable field, each other field at most once
FieldLists ==
    {f \in UNION {[1..n -> FieldNames] : n \in 0..MaxFields} :
        \A x \in FieldNames \ {sortable} : Count(f, x) <= 1}

Fieldsets == [kind : {"list", "tuple"}, fields : FieldLists]

\* list.remove(x): drops the first occurrence of x
RECURSIVE remove(_, _)
remove(seq, x) ==
    IF seq = <<>> THEN <<>>
    ELSE IF Head(seq) = x THEN Tail(seq)
    ELSE <<Head(seq)>> \o remove(Tail(seq), x)

\* the loop left altogether once the sortable field has been inserted
get_fieldsets_break(fs, i, sortable_added) ==
    IF fs[1].kind = "tuple" THEN [fieldsets |-> fs, raised |-> TRUE]
    ELSE [fieldsets |-> [fs EXCEPT ![1].fields =
                            <<sortable>> \o (IF sortable \in Range(@) THEN remove(@, sortable) ELSE @)],
          raised |-> FALSE]

\* the loop of get_fieldsets from fieldset i on. The name of a fieldset is no dict
\* and is skipped; its options are handled as below.
RECURSIVE get_fieldsets_loop(_, _, _)
get_fieldsets_loop(fs, i, sortable_added) ==
    IF i > Len(fs) THEN [fieldsets |-> fs, raised |-> FALSE]
    ELSE IF fs[i].kind = "tuple" THEN [fieldsets |-> fs, raised |-> TRUE]
    ELSE LET fields == fs[i].fields
             removed == IF sortable \in Range(fields) THEN remove(fields, sortable) ELSE fields
             placed == IF ~sortable_added THEN <<sortable>> \o removed ELSE removed
         IN  get_fieldsets_loop([fs EXCEPT ![i].fields = placed], i + 1, TRUE)

\* SortableStackedInlineBase.get_fieldsets: the fieldsets as it leaves them, and
\* whether it raised AssertionError
get_fieldsets(fs) == get_fieldsets_loop(fs, 1, FALSE)

InitFieldsets ==
    /\ declared \in UNION {[1..n -> Fieldsets] : n \in 1..MaxFieldsets}
    /\ fieldsets = declared
    /\ raised = FALSE
    /\ calls = 0
    /\ first_result = <<>>
    /\ NoTable
    /\ NoSessions
    /\ NoWidget

GetFieldsets ==
    /\ calls < MaxCalls
    /\ LET result == get_fieldsets(fieldsets) IN
        /\ fieldsets' = result.fieldsets
        /\ raised' = result.raised
        /\ first_result' = IF calls = 0 THEN result.fieldsets ELSE first_result
    /\ calls' = calls + 1
    /\ UNCHANGED <<declared, adminVars, sessionVars, widgetVars>>

NextFieldsets == GetFieldsets

SpecFieldsets == InitFieldsets /\ [][NextFieldsets]_vars

\* the fields of a sequence other than x, in their order
RECURSIVE Without(_, _)
Without(seq, x) ==
    IF seq = <<>> THEN <<>>
    ELSE IF Head(seq) = x THEN Without(Tail(seq), x)
    ELSE <<Head(seq)>> \o Without(Tail(seq), x)

RECURSIVE TotalCount(_, _)
TotalCount(fs, x) ==
    IF fs = <<>> THEN 0 ELSE Count(Head(fs).fields, x) + TotalCount(Tail(fs), x)

AllLists(fs) == \A i \in DOMAIN fs : fs[i].kind = "list"

\* C5: after get_fieldsets on fieldsets whose fields are all lists, the sortable
\* field is the first field of the first fieldset, occurs exactly once over all
\* fieldsets, and the other fields are in the order they were configured in.
C5_SortableFirstOnce ==
    (calls >= 1 /\ AllLists(declared)) =>
        /\ fieldsets[1].fields # <<>>
        /\ fieldsets[1].fields[1] = sortable
        /\ TotalCount(fieldsets, sortable) = 1
        /\ \A i \in DOMAIN declared :
            Without(fieldsets[i].fields, sortable) = Without(declared[i].fields, sortable)

\* C8: get_fieldsets raises AssertionError exactly when some fieldset gives its
\* fields as a tuple, wherever it is and whatever it holds, and leaves every
\* tuple as it was.
C8_TupleRaises ==
    calls >= 1 =>
        /\ raised <=> (\E i \in DOMAIN declared : declared[i].kind = "tuple")
        /\ \A i \in DOMAIN declared :
            declared[i].kind = "tuple" => fieldsets[i] = declared[i]

\* raised on a tuple without the sortable field, in a fieldset after the one the
\* sortable field was placed in
C8_Witness ==
    /\ calls >= 1
    /\ raised
    /\ Len(declared) = 2
    /\ declared[1].kind = "list"
    /\ fieldsets[1].fields # <<>> /\ fieldsets[1].fields[1] = sortable
    /\ declared[2].kind = "tuple"
    /\ sortable \notin Range(declared[2].fields)

\* C9: a second call of get_fieldsets on the same fieldsets leaves them as the
\* first call did.
C9_Idempotent ==
    calls >= 2 => fieldsets = first_result

\* --------------------------------------------- SpecWidget: EnclosedInput
\* A string is the sequence of its pieces; "fa-user" is <<"fa-", "user">>, so that
\* startswith("fa-") reads the first piece. None and "" are both <<>>, and both
\* false where render tests them.
Texts == {None, <<"$">>, <<"fa-", "user">>}

WrapperClasses == {"addon", "btn"}

InputValues == {"10", "20"}

startswith(value, prefix) == value # <<>> /\ Head(value) = prefix

\* EnclosedInput.enclose_value
enclose_value(value, wrapper_class) ==
    LET inner == IF startswith(value, "fa-")
                 THEN <<"<i class=\"fa ">> \o value \o <<"\"></i>">>
                 ELSE value
    IN  <<"<span class=\"input-group-", wrapper_class, "\">">> \o inner \o <<"</span>">>

\* TextInput.render
input_render(name, value) == <<"<input type=\"text\" name=\"", name, "\" value=\"", value, "\">">>

\* " ".join(div_classes), div_classes a set
div_class(classes) == IF classes = {} THEN <<>> ELSE <<"input-group">>

\* EnclosedInput.render on a widget w: the output, and self.prepend and
\* self.append as it leaves them
render(w, name, value) ==
    LET new_prepend == IF w.prepend # <<>>
                       THEN enclose_value(w.prepend, w.prepend_class) ELSE w.prepend
        new_append == IF w.append # <<>>
                      THEN enclose_value(w.append, w.append_class) ELSE w.append
        div_classes == (IF w.prepend # <<>> THEN {"input-group"} ELSE {})
                       \cup (IF w.append # <<>> THEN {"input-group"} ELSE {})
    IN  [prepend |-> new_prepend,
         append |-> new_append,
         output |-> <<"<div class=\"">> \o div_class(div_classes) \o <<"\">">>
                    \o new_prepend \o input_render(name, value) \o new_append
                    \o <<"</div>">>]

\* EnclosedInput.__init__
InitWidget ==
    /\ configured \in [prepend : Texts, append : Texts,
                       prepend_class : WrapperClasses, append_class : WrapperClasses]
    /\ prepend = configured.prepend
    /\ append = configured.append
    /\ renders = 0
    /\ first_output = [v \in InputValues |-> <<>>]
    /\ last_value = ""
    /\ output = <<>>
    /\ NoTable
    /\ NoSessions
    /\ NoInline

Render ==
    /\ renders < MaxRenders
    /\ \E value \in InputValues :
        LET result == render([prepend |-> prepend, append |-> append,
                              prepend_class |-> configured.prepend_class,
                              append_class |-> configured.append_class],
                             "price", value)
        IN  /\ prepend' = result.prepend
            /\ append' = result.append
            /\ output' = result.output
            /\ last_value' = value
            /\ first_output' = IF first_output[value] = <<>>
                               THEN [first_output EXCEPT ![value] = result.output]
                               ELSE first_output
    /\ renders' = renders + 1
    /\ UNCHANGED <<configured, adminVars, sessionVars, fieldsetVars>>

NextWidget == Render

SpecWidget == InitWidget /\ [][NextWidget]_vars

\* C10: every render call with a given name and value returns what the first
\* such call returned, and leaves prepend and append as they were configured.
C10_RenderRepeatable ==
    renders >= 1 =>
        /\ output = first_output[last_value]
        /\ prepend = configured.prepend
        /\ append = configured.append

====
